---------------------------- MODULE Spec2Model ----------------------------
(***************************************************************************)
(* A model of heckle.js, the static-site build pipeline: front-matter      *)
(* splitting, post collection, tag indexing, layout resolution and the     *)
(* tree walk of generate().                                                *)
(*                                                                         *)
(* JavaScript strings are sequences of one-character strings, so that      *)
(* String.prototype.replace, slice and indexOf are computed on characters. *)
(***************************************************************************)
EXTENDS Integers, Sequences, FiniteSets, TLC

VARIABLES
  disk,     \* the source tree as found on disk when generate() starts
  config,   \* generate's `config`
  pc,       \* position of the control flow of generate()
  err,      \* the exception that ended the build, "none" while it runs
  fi,       \* index of the next entry of readdirSync("_posts/")
  pi,       \* index of the next post of posts.forEach in generate()
  posts,    \* the post collection (readPosts' `posts`, then ctx.site.posts)
  tags,     \* the tag index (gatherTags' `tags`), a sequence of [tag, bucket]
  layouts,  \* the layout cache (var layouts, line 136)
  reads,    \* how many times each _layouts/<name> was read and compiled
  site,     \* the output tree _site: [dirs, files], paths without ./ parts
  written,  \* the output paths written so far, in order
  stack,    \* the frames of walkDir: [dir, rest]
  visits,   \* what the walk decided for each entry it met
  arg,      \* the arguments of a function applied on its own
  ret       \* its result

vars == <<disk, config, pc, err, fi, pi, posts, tags, layouts, reads, site, written,
          stack, visits, arg, ret>>

(***************************************************************************)
(* Bounds of the model.                                                    *)
(***************************************************************************)
MaxPieces == 3
MaxPosts == 2
MaxDepth == 1

(***************************************************************************)
(* Strings.                                                                *)
(***************************************************************************)
RECURSIVE Concat(_)
Concat(ss) == IF ss = <<>> THEN <<>> ELSE Head(ss) \o Concat(Tail(ss))

\* the sequences over S of length at most n
RECURSIVE SeqsUpTo(_, _)
SeqsUpTo(S, n) ==
  IF n = 0 THEN {<<>>}
  ELSE LET shorter == SeqsUpTo(S, n - 1)
       IN  shorter \cup {Append(q, x) : q \in shorter, x \in S}

\* s.slice(n) for 0 <= n
slice(s, n) == IF n >= Len(s) THEN <<>> ELSE SubSeq(s, n + 1, Len(s))

\* s.indexOf(pat) as a 1-based position, 0 when pat does not occur
indexOf(s, pat) ==
  LET hits == {i \in 1..(Len(s) - Len(pat) + 1) :
                 SubSeq(s, i, i + Len(pat) - 1) = pat}
  IN  IF hits = {} THEN 0 ELSE CHOOSE i \in hits : \A j \in hits : i <= j

startsWith(s, pat) == Len(pat) <= Len(s) /\ SubSeq(s, 1, Len(pat)) = pat

endsWith(s, pat) ==
  Len(pat) <= Len(s) /\ SubSeq(s, Len(s) - Len(pat) + 1, Len(s)) = pat

\* The replacement text of String.prototype.replace with a string pattern
\* (GetSubstitution without captures): $$ is a dollar, $& the match, $` the
\* text before the match, $' the text after it; any other $ is itself.
RECURSIVE getSubstitution(_, _, _, _)
getSubstitution(rep, matched, before, after) ==
  IF rep = <<>> THEN <<>>
  ELSE IF Head(rep) = "$" /\ Len(rep) >= 2 /\ rep[2] \in {"$", "&", "`", "'"}
  THEN (CASE rep[2] = "$" -> <<"$">>
          [] rep[2] = "&" -> matched
          [] rep[2] = "`" -> before
          [] rep[2] = "'" -> after)
       \o getSubstitution(slice(rep, 2), matched, before, after)
  ELSE <<Head(rep)>> \o getSubstitution(Tail(rep), matched, before, after)

\* s.replace(pat, rep) with a string pat: the first occurrence only
replace(s, pat, rep) ==
  LET i == indexOf(s, pat)
      before == SubSeq(s, 1, i - 1)
      after == slice(s, i - 1 + Len(pat))
  IN  IF i = 0 THEN s
      ELSE before \o getSubstitution(rep, pat, before, after) \o after

\* "${" + prop + "}"
token(prop) == <<"$", "{">> \o prop \o <<"}">>

\* fillTemplate (lines 92-95). vars is the object's own enumerable properties
\* in for-in order, a sequence of [k, v] with v already String(vars[k]).
RECURSIVE fillTemplate(_, _)
fillTemplate(tpl, vs) ==
  IF vs = <<>> THEN tpl
  ELSE fillTemplate(replace(tpl, token(Head(vs).k), Head(vs).v), Tail(vs))


(***************************************************************************)
(* Dates.  A Date is its day number (days since 1970-01-01 in local time); *)
(* the calendar fields are read back from it as getFullYear, getMonth and  *)
(* getDate do.                                                             *)
(***************************************************************************)
Digits == 0..9

\* ToNumber of a string of decimal digits
RECURSIVE toNumber(_)
toNumber(ds) ==
  IF ds = <<>> THEN 0 ELSE 10 * toNumber(SubSeq(ds, 1, Len(ds) - 1)) + ds[Len(ds)]

\* DaysInYear, DayFromYear, MonthFromTime's table (ECMA-262, 21.4.1)
inLeapYear(y) == (y % 4 = 0) /\ ((y % 100 # 0) \/ (y % 400 = 0))

dayFromYear(y) ==
  365 * (y - 1970) + ((y - 1969) \div 4) - ((y - 1901) \div 100)
    + ((y - 1601) \div 400)

daysInMonth(y, m0) ==
  CASE m0 \in {0, 2, 4, 6, 7, 9, 11} -> 31
    [] m0 \in {3, 5, 8, 10} -> 30
    [] OTHER -> IF inLeapYear(y) THEN 29 ELSE 28

RECURSIVE daysBeforeMonth(_, _)
daysBeforeMonth(y, m0) ==
  IF m0 = 0 THEN 0 ELSE daysBeforeMonth(y, m0 - 1) + daysInMonth(y, m0 - 1)

\* MakeDay(year, month, date): month overflows into the year, date into the
\* following (or preceding) months
makeDay(year, month, date) ==
  LET ym == year + (month \div 12)
      mn == month % 12
  IN  dayFromYear(ym) + daysBeforeMonth(ym, mn) + date - 1

\* new Date(year, month, date): a year 0..99 stands for 1900 + year
newDate(year, month, date) ==
  makeDay(IF 0 <= year /\ year <= 99 THEN 1900 + year ELSE year, month, date)

\* getFullYear, getMonth, getDate of a day number
getFullYear(day) ==
  LET guess == 1970 + (day \div 365)
  IN  CHOOSE y \in (guess - 3)..(guess + 3) :
        dayFromYear(y) <= day /\ day < dayFromYear(y + 1)

getMonth(day) ==
  LET y == getFullYear(day)
      inYear == day - dayFromYear(y)
  IN  CHOOSE m0 \in 0..11 :
        /\ daysBeforeMonth(y, m0) <= inYear
        /\ inYear < daysBeforeMonth(y, m0) + daysInMonth(y, m0)

getDate(day) ==
  LET y == getFullYear(day)
  IN  day - dayFromYear(y) - daysBeforeMonth(y, getMonth(day)) + 1

\* post.date = new Date(d[1], d[2] - 1, d[3]); d[1..3] are the digit strings
\* the pattern of line 44 captured
\* the month passed as it is written, not zero-based
postDateMonthAsWritten(d1, d2, d3) == newDate(toNumber(d1), toNumber(d2), toNumber(d3))

\* line 48
postDate(d1, d2, d3) == newDate(toNumber(d1), toNumber(d2) - 1, toNumber(d3))


(***************************************************************************)
(* JavaScript values and objects.  An object is the sequence of its own    *)
(* enumerable properties [k, v] in insertion order, which is the order of  *)
(* for-in for keys that are not array indices.                             *)
(***************************************************************************)
Str(s) == [t |-> "str", s |-> s]
DateV(day) == [t |-> "date", day |-> day]
Arr(a) == [t |-> "arr", a |-> a]
Bool(b) == [t |-> "bool", b |-> b]
Fn(name) == [t |-> "fn", name |-> name]
Obj(o) == [t |-> "obj", o |-> o]
Undefined == [t |-> "undef"]

has(o, k) == \E i \in 1..Len(o) : o[i].k = k

get(o, k) ==
  IF has(o, k) THEN o[CHOOSE i \in 1..Len(o) : o[i].k = k].v ELSE Undefined

\* o[k] = v: an existing property keeps its place
set(o, k, v) ==
  IF has(o, k)
  THEN [i \in 1..Len(o) |-> IF o[i].k = k THEN [k |-> k, v |-> v] ELSE o[i]]
  ELSE Append(o, [k |-> k, v |-> v])

keys(o) == {o[i].k : i \in 1..Len(o)}

\* ToBoolean
truthy(v) ==
  CASE v.t = "undef" -> FALSE
    [] v.t = "str" -> v.s # <<>>
    [] v.t = "bool" -> v.b
    [] OTHER -> TRUE

\* String(v).  The text Date.prototype.toString gives is one opaque element
\* naming the calendar day; an array is its elements joined by commas.
RECURSIVE toString(_)
toString(v) ==
  CASE v.t = "str" -> v.s
    [] v.t = "date" ->
         << "Date " \o ToString(getFullYear(v.day)) \o "-"
              \o ToString(getMonth(v.day) + 1) \o "-" \o ToString(getDate(v.day)) >>
    [] v.t = "arr" ->
         IF v.a = <<>> THEN <<>>
         ELSE IF Len(v.a) = 1 THEN toString(v.a[1])
         ELSE toString(v.a[1]) \o <<",">> \o toString(Arr(Tail(v.a)))
    [] v.t = "bool" -> IF v.b THEN <<"t", "r", "u", "e">> ELSE <<"f", "a", "l", "s", "e">>
    [] v.t = "undef" -> <<"u", "n", "d", "e", "f", "i", "n", "e", "d">>
    [] OTHER -> <<"[object]">>

\* the properties of an object as fillTemplate's for-in loop meets them
forIn(o) == [i \in 1..Len(o) |-> [k |-> o[i].k, v |-> toString(o[i].v)]]

\* s.split(/\s+/): the pieces between the runs of white space
RECURSIVE splitWs(_, _, _)
splitWs(s, cur, inRun) ==
  IF s = <<>> THEN <<cur>>
  ELSE IF Head(s) = " "
       THEN IF inRun THEN splitWs(Tail(s), cur, TRUE)
            ELSE <<cur>> \o splitWs(Tail(s), <<>>, TRUE)
       ELSE splitWs(Tail(s), Append(cur, Head(s)), FALSE)

split(s) == splitWs(s, <<>>, FALSE)

\* Property names
K_date == <<"d", "a", "t", "e">>
K_name == <<"n", "a", "m", "e">>
K_tags == <<"t", "a", "g", "s">>
K_url == <<"u", "r", "l">>
K_content == <<"c", "o", "n", "t", "e", "n", "t">>
K_isLink == <<"i", "s", "L", "i", "n", "k">>
K_layout == <<"l", "a", "y", "o", "u", "t">>
K_title == <<"t", "i", "t", "l", "e">>
K_postLink == <<"p", "o", "s", "t", "L", "i", "n", "k">>
K_postFileName == <<"p", "o", "s", "t", "F", "i", "l", "e", "N", "a", "m", "e">>
K_exclude == <<"e", "x", "c", "l", "u", "d", "e">>
K_site == <<"s", "i", "t", "e">>
K_dateFormat == <<"d", "a", "t", "e", "F", "o", "r", "m", "a", "t">>
K_hasOwnProperty == <<"h", "a", "s", "O", "w", "n", "P", "r", "o", "p", "e", "r", "t", "y">>
K_proto == <<"_", "_", "p", "r", "o", "t", "o", "_", "_">>

(***************************************************************************)
(* Front matter.  The text of a content file is [fm, meta, body]: fm says  *)
(* what the text starts with: "none" (no opening --- line), "unclosed" (no *)
(* closing --- line), "empty" (a block yaml.load reads as nothing), "map"  *)
(* (a block that is the mapping meta) or "malformed" (a block yaml.load    *)
(* rejects).                                                               *)
(***************************************************************************)
\* a block yaml.load rejects read as no front matter, without an exception
readContentsLenient(text) ==
  [threw |-> FALSE,
   frontMatter |-> IF text.fm = "map" THEN Obj(text.meta) ELSE Undefined,
   mainText |-> text.body]

\* readContents (lines 21-31)
readContents(text) ==
  IF text.fm \in {"none", "unclosed"}
  THEN [threw |-> FALSE, frontMatter |-> Undefined, mainText |-> text.body]
  ELSE IF text.fm = "malformed"
  THEN [threw |-> TRUE, frontMatter |-> Undefined, mainText |-> <<>>]
  ELSE [threw |-> FALSE,
        frontMatter |-> Obj(IF text.fm = "map" THEN text.meta ELSE <<>>),
        mainText |-> text.body]

\* the Markdown renderer, a black box: the body between paragraph tags
renderMarkdown(text) == <<"<p>">> \o text \o <<"</p>">>

\* Mold.prototype.escapeHTML, a black box: the special characters as entities
escapeHTML(v) ==
  LET s == toString(v)
      esc(c) == CASE c = "<" -> <<"&lt;">> [] c = "&" -> <<"&amp;">>
                  [] c = "\"" -> <<"&quot;">> [] OTHER -> <<c>>
  IN  Concat([i \in 1..Len(s) |-> esc(s[i])])


(***************************************************************************)
(* readConfig, readPosts, gatherTags.                                      *)
(***************************************************************************)
S_nameHtml == token(K_name) \o <<".", "h", "t", "m", "l">>
S_url == token(K_url)

\* var defaults (lines 80-83)
defaults ==
  << [k |-> K_postLink, v |-> Str(S_nameHtml)],
     [k |-> K_postFileName, v |-> Str(S_url)] >>

\* readConfig (lines 85-90); file is the mapping of _config.yml, or
\* Undefined when there is no such file
RECURSIVE withDefaults(_, _)
withDefaults(cfg, ds) ==
  IF ds = <<>> THEN cfg
  ELSE withDefaults(IF has(cfg, Head(ds).k) THEN cfg
                    ELSE set(cfg, Head(ds).k, Head(ds).v), Tail(ds))

readConfig(file) == withDefaults(IF truthy(file) THEN file.o ELSE <<>>, defaults)

\* getURL (lines 97-99)
getURL(cfg, post) == fillTemplate(toString(get(cfg, K_postLink)), forIn(post))

S_linkHead == <<"<p>Read this post at <a href=\"">>
S_linkMid == <<"\">">>
S_linkTail == <<"</a>.</p>">>

\* The body of readPosts' loop for one matching file name (lines 46-63).
\* file is [matches, d1, d2, d3, slug, ext, text]: the groups the pattern of
\* line 44 captured and the text of the file.
readPost(cfg, file) ==
  LET contents == readContents(file.text)
      post0 == IF truthy(contents.frontMatter) THEN contents.frontMatter.o ELSE <<>>
      post1 == set(post0, K_date, DateV(postDate(file.d1, file.d2, file.d3)))
      post2 == set(post1, K_name, Str(file.slug))
      post3 == IF ~truthy(get(post2, K_tags)) THEN set(post2, K_tags, Arr(<<>>))
               ELSE post2
      tags3 == get(post3, K_tags)
      post4 == IF tags3.t # "arr" /\ tags3.t = "str"
               THEN set(post3, K_tags,
                        Arr([i \in 1..Len(split(tags3.s)) |-> Str(split(tags3.s)[i])]))
               ELSE post3
      escd  == escapeHTML(get(post4, K_url))
      link  == set(set(post4, K_content,
                       Str(S_linkHead \o escd \o S_linkMid \o escd \o S_linkTail)),
                   K_isLink, Bool(TRUE))
      body  == set(post4, K_content,
                   Str(IF file.ext \in {"md", "markdown"}
                       THEN renderMarkdown(contents.mainText)
                       ELSE contents.mainText))
      page  == set(body, K_url, Str(getURL(cfg, body)))
  IN  [threw |-> contents.threw,
       post |-> IF file.ext = "link" THEN link ELSE page]

day(post) == get(post, K_date).day

\* posts.sort(function(a, b){return b.date - a.date;}) (line 65): newest
\* first, posts of one day in the order they were read (the sort is stable)
RECURSIVE insertByDate(_, _)
insertByDate(sorted, post) ==
  IF sorted = <<>> THEN <<post>>
  ELSE IF day(Head(sorted)) >= day(post)
       THEN <<Head(sorted)>> \o insertByDate(Tail(sorted), post)
       ELSE <<post>> \o sorted

RECURSIVE sortByDate(_)
sortByDate(ps) ==
  IF ps = <<>> THEN <<>>
  ELSE insertByDate(sortByDate(SubSeq(ps, 1, Len(ps) - 1)), ps[Len(ps)])

\* gatherTags (lines 69-78).  The index is an object whose values are the
\* buckets, a bucket the sequence of the positions of its posts in `ps`.
\* Work is the flattened double loop: the pairs <<post position, tag>>.
\* A tag named hasOwnProperty becomes an own property that shadows the
\* method, so that the next tags.hasOwnProperty(tag) is a call of an array;
\* a tag named __proto__ is assigned to the prototype and is no own property.
pushPost(index, tag, i) ==
  IF has(index, tag) THEN set(index, tag, Append(get(index, tag), i))
  ELSE IF tag = K_proto THEN index
  ELSE set(index, tag, <<i>>)

RECURSIVE gatherWork(_, _)
gatherWork(index, work) ==
  IF work = <<>> THEN [threw |-> FALSE, tags |-> index]
  ELSE IF has(index, K_hasOwnProperty) THEN [threw |-> TRUE, tags |-> index]
  ELSE gatherWork(pushPost(index, Head(work)[2], Head(work)[1]), Tail(work))

tagsOf(post) ==
  LET v == get(post, K_tags)
  IN  IF v.t = "arr" THEN [j \in 1..Len(v.a) |-> toString(v.a[j])] ELSE <<>>

gatherTags(ps) ==
  gatherWork(<<>>, Concat([i \in 1..Len(ps) |->
                             [j \in 1..Len(tagsOf(ps[i])) |-> <<i, tagsOf(ps[i])[j]>>]]))


(***************************************************************************)
(* Paths and the output tree.                                              *)
(***************************************************************************)
NoArg == [f |-> "none"]
NoRet == [f |-> "none"]
IdleDisk == [idle |-> TRUE]
IdleSite == [dirs |-> {}, files |-> {}]

S_site == <<"_", "s", "i", "t", "e", "/">>
S_dotSlash == <<".", "/">>
S_html == <<".", "h", "t", "m", "l">>
S_md == <<".", "m", "d">>
S_markdown == <<".", "m", "a", "r", "k", "d", "o", "w", "n">>
S_postHtml == <<"p", "o", "s", "t">> \o S_html
S_defaultHtml == <<"d", "e", "f", "a", "u", "l", "t">> \o S_html

\* s.split("/")
RECURSIVE splitSlash(_, _)
splitSlash(s, cur) ==
  IF s = <<>> THEN <<cur>>
  ELSE IF Head(s) = "/" THEN <<cur>> \o splitSlash(Tail(s), <<>>)
  ELSE splitSlash(Tail(s), Append(cur, Head(s)))

RECURSIVE joinSlash(_)
joinSlash(parts) ==
  IF parts = <<>> THEN <<>>
  ELSE IF Len(parts) = 1 THEN Head(parts)
  ELSE Head(parts) \o <<"/">> \o joinSlash(Tail(parts))

\* the file the operating system finds at a path: its "." parts dropped
norm(path) == joinSlash(SelectSeq(splitSlash(path, <<>>), LAMBDA part : part # <<".">>))

\* ensureDirectories (lines 101-107): the directories it finds or makes are
\* the prefixes of path that end at a slash
ensureDirectories(dirs, path) ==
  dirs \cup {norm(SubSeq(path, 1, i)) : i \in {j \in 1..Len(path) : path[j] = "/"}}

\* fs.writeFileSync(path, data) and util.copyFileSync(src, path)
writeFile(files, path, data) ==
  {f \in files : f.path # norm(path)} \cup {[path |-> norm(path), data |-> data]}

NonWordChars == {".", "/", "$", "{", "}", " ", "-", "&", "<", ">", "\"", ","}

\* layout.filename.match(/(\.\w+|)$/)[1]: from the last dot on when what
\* follows it is one or more word characters, else the empty string
layoutExtension(filename) ==
  LET dots == {i \in 1..Len(filename) : filename[i] = "."}
      last == CHOOSE i \in dots : \A j \in dots : j <= i
  IN  IF dots = {} \/ last = Len(filename) THEN <<>>
      ELSE IF \E j \in (last + 1)..Len(filename) : filename[j] \in NonWordChars THEN <<>>
      ELSE slice(filename, last - 1)

\* out.replace(/\.(md|markdown)$/, ext) (line 188): only a Markdown
\* extension is replaced
outPath(out, filename) ==
  IF endsWith(out, S_md)
  THEN SubSeq(out, 1, Len(out) - Len(S_md)) \o layoutExtension(filename)
  ELSE IF endsWith(out, S_markdown)
  THEN SubSeq(out, 1, Len(out) - Len(S_markdown)) \o layoutExtension(filename)
  ELSE out

\* fname.match(/^(.*?)\.[^\.]+$/): is there a dot with something after it
hasStem(fname) == \E i \in 1..(Len(fname) - 1) : fname[i] = "."

\* ...[1]: the name up to its last dot
stem(fname) ==
  LET dots == {i \in 1..(Len(fname) - 1) : fname[i] = "."}
  IN  SubSeq(fname, 1, (CHOOSE i \in dots : \A j \in dots : j <= i) - 1)

(***************************************************************************)
(* Layouts.                                                                *)
(***************************************************************************)
\* The names bound at module level (lines 3-9, 33, 80, 136 and the function
\* declarations) and the parameters and locals of getLayout (lines 137-142).
\* generate's locals config, posts, ctx and includes (lines 151-156) are not
\* among them: getLayout is declared outside generate.
ModuleScope ==
  {"path", "fs", "rmrf", "yaml", "Mold", "util", "Handlebars", "readContents",
   "renderMarkdown", "getRenderMarkdown", "readPosts", "gatherTags", "defaults",
   "readConfig", "fillTemplate", "getURL", "ensureDirectories", "prepareMold",
   "partialTemplate", "prepareIncludes", "layouts", "getLayout", "generate"}

GetLayoutScope == ModuleScope \cup {"name", "mold", "tmpl", "mergedTmpl"}

\* JSON.parse(JSON.stringify(v)): a property whose value is a function or
\* undefined is dropped, such an array element is null, a Date is the
\* string of its toJSON
RECURSIVE jsonClone(_)
jsonClone(v) ==
  CASE v.t = "date" -> Str(<<"ISO " \o ToString(v.day)>>)
    [] v.t = "arr" ->
         Arr([i \in 1..Len(v.a) |->
                IF v.a[i].t \in {"fn", "undef"} THEN [t |-> "null"] ELSE jsonClone(v.a[i])])
    [] v.t = "obj" ->
         LET kept == SelectSeq(v.o, LAMBDA p : p.v.t \notin {"fn", "undef"})
         IN  Obj([i \in 1..Len(kept) |-> [k |-> kept[i].k, v |-> jsonClone(kept[i].v)]])
    [] OTHER -> v

\* the loop of partialTemplate (lines 121-123)
RECURSIVE assignAll(_, _)
assignAll(target, source) ==
  IF source = <<>> THEN target
  ELSE assignAll(set(target, Head(source).k, Head(source).v), Tail(source))

\* partialTemplate(tmpl, ctx)(newCtx) (lines 118-126): the context handed
\* to the compiled template
partialTemplate(ctx, newCtx) == assignAll(jsonClone(Obj(ctx)).o, newCtx)

\* getLayout (lines 137-148).  cache is `layouts`, files the names in
\* _layouts/.  read says whether _layouts/<name> was read and compiled.
normalName(name) == IF indexOf(name, <<".">>) = 0 THEN name \o S_html ELSE name

getLayout(name, cache, files) ==
  LET nm == normalName(name)
  IN  IF has(cache, nm)
      THEN [threw |-> "none", fn |-> get(cache, nm), cache |-> cache, read |-> <<>>]
      ELSE IF nm \notin files
      THEN [threw |-> "ENOENT", fn |-> Undefined, cache |-> cache, read |-> <<>>]
      ELSE IF "ctx" \notin GetLayoutScope
      THEN [threw |-> "ReferenceError", fn |-> Undefined, cache |-> cache,
            read |-> <<nm>>]
      ELSE [threw |-> "none", fn |-> Fn(nm), cache |-> set(cache, nm, Fn(nm)),
            read |-> <<nm>>]

\* post.layout || "post.html", doc.layout || "default.html"
layoutOf(doc, dflt) ==
  IF truthy(get(doc, K_layout)) THEN toString(get(doc, K_layout)) ELSE dflt

\* ctx (lines 154-155)
siteContext(ps, index, cfg) ==
  << [k |-> K_site,
      v |-> Obj(<< [k |-> <<"p", "o", "s", "t", "s">>,
                    v |-> Arr([i \in 1..Len(ps) |-> Obj(ps[i])])],
                   [k |-> K_tags,
                    v |-> Obj([t \in 1..Len(index) |->
                                 [k |-> index[t].k,
                                  v |-> Arr([j \in 1..Len(index[t].v) |->
                                               Obj(ps[index[t].v[j]])])]])],
                   [k |-> <<"c", "o", "n", "f", "i", "g">>, v |-> Obj(cfg)] >>)],
     [k |-> K_dateFormat, v |-> Fn(<<"dateformat">>)] >>


(***************************************************************************)
(* The source trees generate() is run on.                                  *)
(***************************************************************************)
Text(fm, meta, body) == [fm |-> fm, meta |-> meta, body |-> body]
NoText == Text("none", <<>>, <<>>)

File(name, text) == [name |-> name, isDir |-> FALSE, kids |-> <<>>, text |-> text]
Dir(name, kids) == [name |-> name, isDir |-> TRUE, kids |-> kids, text |-> NoText]

Tag_a == Str(<<"a">>)
Tag_b == Str(<<"b">>)
S_postXml == <<"p", "o", "s", "t", ".", "x", "m", "l">>
S_hello == <<"h", "e", "l", "l", "o">>

PostFile(d1, d2, d3, slug, ext, text) ==
  [matches |-> TRUE, d1 |-> d1, d2 |-> d2, d3 |-> d3, slug |-> slug, ext |-> ext,
   text |-> text]

\* the entries of _posts/ in the order readdirSync lists them
PostsListing ==
  << \* 2023-2-30-x.md, no front matter
     PostFile(<<2, 0, 2, 3>>, <<2>>, <<3, 0>>, <<"x">>, "md",
              Text("none", <<>>, <<"x">>)),
     \* 2024-03-05-hello.html, tags: [b, a, a]
     PostFile(<<2, 0, 2, 4>>, <<0, 3>>, <<0, 5>>, S_hello, "html",
              Text("map", <<[k |-> K_tags, v |-> Arr(<<Tag_b, Tag_a, Tag_a>>)]>>,
                   <<"h">>)),
     \* 2024-3-5-hello.md, title: Hi, tags: a b, date: d
     PostFile(<<2, 0, 2, 4>>, <<3>>, <<5>>, S_hello, "md",
              Text("map", <<[k |-> K_title, v |-> Str(<<"H", "i">>)],
                            [k |-> K_tags, v |-> Str(<<"a", " ", "b">>)],
                            [k |-> K_date, v |-> Str(<<"d">>)]>>,
                   <<"*", "h", "i", "*">>)),
     \* 2024-3-6-bad.md, a front-matter block that is not YAML
     PostFile(<<2, 0, 2, 4>>, <<3>>, <<6>>, <<"b", "a", "d">>, "md",
              Text("malformed", <<>>, <<>>)),
     \* 2024-3-7-ext.link, url: h&x, tags: __proto__ a
     PostFile(<<2, 0, 2, 4>>, <<3>>, <<7>>, <<"e", "x", "t">>, "link",
              Text("map", <<[k |-> K_url, v |-> Str(<<"h", "&", "x">>)],
                            [k |-> K_tags,
                             v |-> Str(K_proto \o <<" ", "a">>)]>>, <<>>)),
     \* 2024-3-8-own.link, url: o, tags: [hasOwnProperty, a]
     PostFile(<<2, 0, 2, 4>>, <<3>>, <<8>>, <<"o", "w", "n">>, "link",
              Text("map", <<[k |-> K_url, v |-> Str(<<"o">>)],
                            [k |-> K_tags,
                             v |-> Arr(<<Str(K_hasOwnProperty), Tag_a>>)]>>, <<>>)),
     \* README, a name the pattern of line 44 does not match
     [matches |-> FALSE, d1 |-> <<>>, d2 |-> <<>>, d3 |-> <<>>, slug |-> <<>>,
      ext |-> "", text |-> NoText] >>

\* a post file readPosts collects
readable(file) == file.matches /\ file.text.fm # "malformed"

\* the sub-listings of a listing with at most n entries
SubListings(listing, n) ==
  {q \in SeqsUpTo(1..Len(listing), n) : \A i \in 1..(Len(q) - 1) : q[i] < q[i + 1]}

Pick(listing, q) == [i \in 1..Len(q) |-> listing[q[i]]]

PostsDirs == {Pick(PostsListing, q) : q \in SubListings(PostsListing, MaxPosts)}

\* what a directory holds beside its subdirectory "a"
LeafListings ==
  { <<>>,
    << File(<<"b">>, Text("none", <<>>, <<"s">>)) >>,
    << File(<<"b">>, Text("unclosed", <<>>, <<"-">>)),
       File(<<"c", ".", "m", "d">>,
            Text("map", <<[k |-> K_layout, v |-> Str(S_postXml)]>>, <<"m">>)) >>,
    << File(<<"b">>, Text("none", <<>>, <<"s">>)),
       File(<<"c", ".", "h", "t", "m", "l">>, Text("malformed", <<>>, <<>>)) >>,
    << File(<<"c", ".", "h", "t", "m", "l">>, Text("empty", <<>>, <<"e">>)) >> }

RECURSIVE Listings(_)
Listings(depth) ==
  IF depth = 0 THEN LeafListings
  ELSE LeafListings
       \cup {<<Dir(<<"a">>, kids)>> \o leaf : kids \in Listings(depth - 1),
                                             leaf \in LeafListings}

ConfigFiles ==
  { Undefined,
    Obj(<< [k |-> K_exclude,
            v |-> Arr(<<Str(<<"a", "/", "c">>), Str(<<"c">>)>>)] >>),
    Obj(<< [k |-> K_postLink, v |-> Str(token(K_title) \o <<"/">> \o token(K_name))],
           [k |-> K_exclude, v |-> Arr(<<Str(<<"a", "/", "a">>), Str(<<"b">>)>>)] >>) }

LayoutDirs == { {}, {S_postHtml, S_defaultHtml, S_postXml} }

OldSites ==
  { IdleSite,
    [dirs |-> {S_site},
     files |-> {[path |-> S_site \o <<"o", "l", "d">>,
                 data |-> [kind |-> "copy", text |-> NoText]]}] }

(***************************************************************************)
(* generate() (lines 150-197), one step per file it handles.               *)
(***************************************************************************)
Init ==
  /\ disk \in [configFile : ConfigFiles, hasPosts : BOOLEAN, postFiles : PostsDirs,
               layoutFiles : LayoutDirs, tree : Listings(MaxDepth),
               oldSite : OldSites]
  /\ disk.hasPosts \/ disk.postFiles = <<>>
  /\ site = disk.oldSite
  /\ config = <<>> /\ pc = "readConfig" /\ err = "none" /\ fi = 1 /\ pi = 1
  /\ posts = <<>> /\ tags = <<>> /\ layouts = <<>> /\ reads = <<>>
  /\ written = <<>> /\ stack = <<>> /\ visits = <<>>
  /\ arg = NoArg /\ ret = NoRet

\* an exception leaves generate(): pc stays where it was thrown
Abort(kind) == err' = kind /\ UNCHANGED pc

\* lines 151-152.  No configuration of the model names a markdownRenderer,
\* so getRenderMarkdown gives the renderer of the repository.
ReadConfig ==
  /\ err = "none" /\ pc = "readConfig"
  /\ config' = readConfig(disk.configFile)
  /\ pc' = "readPosts"
  /\ UNCHANGED <<disk, err, fi, pi, posts, tags, layouts, reads, site, written,
                 stack, visits, arg, ret>>

\* one turn of the loop of readPosts (lines 43-64)
ReadPost ==
  /\ err = "none" /\ pc = "readPosts" /\ disk.hasPosts /\ fi <= Len(disk.postFiles)
  /\ LET file == disk.postFiles[fi]
         r == readPost(config, file)
     IN  IF ~file.matches THEN fi' = fi + 1 /\ UNCHANGED <<pc, err, posts>>
         ELSE IF r.threw THEN Abort("ParseError") /\ UNCHANGED <<fi, posts>>
         ELSE posts' = Append(posts, r.post) /\ fi' = fi + 1 /\ UNCHANGED <<pc, err>>
  /\ UNCHANGED <<disk, config, pi, tags, layouts, reads, site, written, stack,
                 visits, arg, ret>>

\* the end of readPosts (lines 42, 65-66)
SortPosts ==
  /\ err = "none" /\ pc = "readPosts" /\ (~disk.hasPosts \/ fi > Len(disk.postFiles))
  /\ posts' = sortByDate(posts)
  /\ pc' = "gatherTags"
  /\ UNCHANGED <<disk, config, err, fi, pi, tags, layouts, reads, site, written,
                 stack, visits, arg, ret>>

\* gatherTags(posts) (line 154)
GatherTags ==
  /\ err = "none" /\ pc = "gatherTags"
  /\ LET r == gatherTags(posts)
     IN  IF r.threw THEN Abort("TypeError") /\ UNCHANGED tags
         ELSE tags' = r.tags /\ pc' = "reset" /\ UNCHANGED err
  /\ UNCHANGED <<disk, config, fi, pi, posts, layouts, reads, site, written, stack,
                 visits, arg, ret>>

\* lines 156-157.  The source trees of the model have no _includes/, so
\* prepareIncludes returns at line 129; rmrf.sync("_site") empties the output
\* tree when there is one.
ResetSite ==
  /\ err = "none" /\ pc = "reset"
  /\ site' = IdleSite
  /\ pc' = "emit"
  /\ UNCHANGED <<disk, config, err, fi, pi, posts, tags, layouts, reads, written,
                 stack, visits, arg, ret>>

\* layout(doc): what the compiled template of the layout gives for the
\* context partialTemplate hands it, a black box
rendered(fn, doc) ==
  [kind |-> "render", layout |-> fn.name,
   context |-> partialTemplate(siteContext(posts, tags, config), doc)]

\* one turn of posts.forEach (lines 158-163)
EmitPost ==
  /\ err = "none" /\ pc = "emit" /\ pi <= Len(posts)
  /\ LET post == posts[pi]
         path == S_site \o fillTemplate(toString(get(config, K_postFileName)), forIn(post))
         g == getLayout(layoutOf(post, S_postHtml), layouts, disk.layoutFiles)
     IN  IF truthy(get(post, K_isLink))
         THEN pi' = pi + 1 /\ UNCHANGED <<pc, err, layouts, reads, site, written>>
         ELSE /\ layouts' = g.cache
              /\ reads' = reads \o g.read
              /\ IF g.threw # "none"
                 THEN /\ Abort(g.threw)
                      /\ site' = [site EXCEPT !.dirs = ensureDirectories(@, path)]
                      /\ UNCHANGED <<pi, written>>
                 ELSE /\ site' = [dirs |-> ensureDirectories(site.dirs, path),
                                  files |-> writeFile(site.files, path, rendered(g.fn, post))]
                      /\ written' = Append(written, [path |-> norm(path), by |-> "post"])
                      /\ pi' = pi + 1
                      /\ UNCHANGED <<pc, err>>
  /\ UNCHANGED <<disk, config, fi, posts, tags, stack, visits, arg, ret>>


\* isExcluded (lines 164-168)
isExcluded(cfg, path) ==
  LET ex == get(cfg, K_exclude)
  IN  truthy(ex) /\ \E i \in 1..Len(ex.a) : indexOf(slice(path, 2), toString(ex.a[i])) = 1

\* fs.readdirSync("./") when the walk starts: the reserved entries that
\* exist, then the rest of the tree
rootListing ==
  (IF disk.configFile # Undefined
   THEN <<File(<<"_", "c", "o", "n", "f", "i", "g", ".", "y", "m", "l">>, NoText)>>
   ELSE <<>>)
  \o (IF disk.layoutFiles # {}
      THEN <<Dir(<<"_", "l", "a", "y", "o", "u", "t", "s">>, <<>>)>> ELSE <<>>)
  \o (IF disk.hasPosts THEN <<Dir(<<"_", "p", "o", "s", "t", "s">>, <<>>)>> ELSE <<>>)
  \o (IF S_site \in site.dirs THEN <<Dir(<<"_", "s", "i", "t", "e">>, <<>>)>> ELSE <<>>)
  \o disk.tree

\* walkDir("./") (line 196)
StartWalk ==
  /\ err = "none" /\ pc = "emit" /\ pi > Len(posts)
  /\ stack' = <<[dir |-> S_dotSlash, names |-> <<>>, rest |-> rootListing]>>
  /\ pc' = "walk"
  /\ UNCHANGED <<disk, config, err, fi, pi, posts, tags, layouts, reads, site,
                 written, visits, arg, ret>>

\* the directory's path passed on without its slash
subDirBare(file) == file

\* file + "/" (line 175)
subDir(file) == file \o <<"/">>

\* the output path built from the entry's name alone
mirrorFlat(dir, fname) == S_site \o fname

\* "_site/" + file (line 177)
mirror(dir, fname) == S_site \o dir \o fname

Visit(names, file, what, e) ==
  [names |-> names, file |-> file, what |-> what, text |-> e.text]

\* one turn of the loop of walkDir (lines 170-194).  names is the path of
\* the entry in the tree, kept beside the string the code builds.
WalkEntry ==
  /\ err = "none" /\ pc = "walk" /\ stack # <<>> /\ stack[Len(stack)].rest # <<>>
  /\ LET top == stack[Len(stack)]
         e == Head(top.rest)
         fname == e.name
         names == Append(top.names, fname)
         file == top.dir \o fname
         popped == [stack EXCEPT ![Len(stack)].rest = Tail(top.rest)]
         out == mirror(top.dir, fname)
         dirs1 == ensureDirectories(site.dirs, out)
         contents == readContents(e.text)
         doc == contents.frontMatter.o
         g == getLayout(layoutOf(doc, S_defaultHtml), layouts, disk.layoutFiles)
         doc1 == set(doc, K_content,
                     Str(IF endsWith(fname, S_md) \/ endsWith(fname, S_markdown)
                         THEN renderMarkdown(contents.mainText)
                         ELSE contents.mainText))
         doc2 == set(set(doc1, K_name, Str(stem(fname))), K_url, Str(file))
         out1 == outPath(out, g.fn.name)
     IN  IF fname[1] \in {"_", "."}
         THEN /\ visits' = Append(visits, Visit(names, file, "reserved", e))
              /\ stack' = popped
              /\ UNCHANGED <<pc, err, layouts, reads, site, written>>
         ELSE IF isExcluded(config, file)
         THEN /\ visits' = Append(visits, Visit(names, file, "excluded", e))
              /\ stack' = popped
              /\ UNCHANGED <<pc, err, layouts, reads, site, written>>
         ELSE IF e.isDir
         THEN /\ visits' = Append(visits, Visit(names, file, "directory", e))
              /\ stack' = Append(popped, [dir |-> subDir(file), names |-> names,
                                          rest |-> e.kids])
              /\ UNCHANGED <<pc, err, layouts, reads, site, written>>
         ELSE IF contents.threw
         THEN /\ visits' = Append(visits, Visit(names, file, "unreadable", e))
              /\ Abort("ParseError")
              /\ site' = [site EXCEPT !.dirs = dirs1]
              /\ UNCHANGED <<stack, layouts, reads, written>>
         ELSE IF ~truthy(contents.frontMatter)
         THEN /\ visits' = Append(visits, Visit(names, file, "copy", e))
              /\ site' = [dirs |-> dirs1, files |-> writeFile(site.files, out, [kind |-> "copy", text |-> e.text])]
              /\ written' = Append(written, [path |-> norm(out), by |-> "walk"])
              /\ stack' = popped
              /\ UNCHANGED <<pc, err, layouts, reads>>
         ELSE /\ visits' = Append(visits, Visit(names, file, "document", e))
              /\ layouts' = g.cache
              /\ reads' = reads \o g.read
              /\ IF g.threw # "none"
                 THEN /\ Abort(g.threw)
                      /\ site' = [site EXCEPT !.dirs = dirs1]
                      /\ UNCHANGED <<stack, written>>
                 ELSE IF ~hasStem(fname)
                 THEN /\ Abort("TypeError")
                      /\ site' = [site EXCEPT !.dirs = dirs1]
                      /\ UNCHANGED <<stack, written>>
                 ELSE /\ site' = [dirs |-> dirs1,
                                  files |-> writeFile(site.files, out1, rendered(g.fn, doc2))]
                      /\ written' = Append(written, [path |-> norm(out1), by |-> "walk"])
                      /\ stack' = popped
                      /\ UNCHANGED <<pc, err>>
  /\ UNCHANGED <<disk, config, fi, pi, posts, tags, arg, ret>>

\* a call of walkDir returns
WalkReturn ==
  /\ err = "none" /\ pc = "walk" /\ stack # <<>> /\ stack[Len(stack)].rest = <<>>
  /\ stack' = SubSeq(stack, 1, Len(stack) - 1)
  /\ pc' = IF Len(stack) = 1 THEN "done" ELSE "walk"
  /\ UNCHANGED <<disk, config, err, fi, pi, posts, tags, layouts, reads, site,
                 written, visits, arg, ret>>

Next ==
  \/ ReadConfig
  \/ ReadPost
  \/ SortPosts
  \/ GatherTags
  \/ ResetSite
  \/ EmitPost
  \/ StartWalk
  \/ WalkEntry
  \/ WalkReturn

Spec == Init /\ [][Next]_vars


(***************************************************************************)
(* Properties of generate().                                               *)
(***************************************************************************)
isLinkPost(post) == truthy(get(post, K_isLink))

postPath(post) ==
  norm(S_site \o fillTemplate(toString(get(config, K_postFileName)), forIn(post)))

fileAt(path) == {f \in site.files : f.path = path}

\* the emission loop is through with post i: it has moved past it, or an
\* exception other than a missing layout file has stopped it there
emitted(i) ==
  \/ pc \in {"walk", "done"}
  \/ pc = "emit" /\ i < pi
  \/ pc = "emit" /\ i = pi /\ err \notin {"none", "ENOENT"}

\* C1: once the emission of the posts is over, every post that is not a
\* link post has a file at "_site/" + fillTemplate(config.postFileName, post)
\* holding its layout render, and the emission has written no other file
\* (none for a link post).
C1_PostWrittenIffNotLink ==
  /\ \A i \in 1..Len(posts) :
       (emitted(i) /\ ~isLinkPost(posts[i]))
         => \E f \in fileAt(postPath(posts[i])) :
              /\ f.data.kind = "render"
              /\ f.data.layout = normalName(layoutOf(posts[i], S_postHtml))
  /\ \A w \in 1..Len(written) :
       written[w].by = "post"
         => \E i \in 1..Len(posts) :
              ~isLinkPost(posts[i]) /\ written[w].path = postPath(posts[i])

\* the extension of a path: from its last dot on
withExtension(path, ext) ==
  LET dots == {i \in 1..Len(path) : path[i] = "."}
      last == CHOOSE i \in dots : \A j \in dots : j <= i
  IN  IF dots = {} THEN path \o ext ELSE SubSeq(path, 1, last - 1) \o ext

relPath(names) == joinSlash(names)

docLayout(v) == normalName(layoutOf(readContents(v.text).frontMatter.o, S_defaultHtml))

\* C2: every file the walk has classified as a document with a layout is
\* written to the mirrored path "_site/" + source path with its extension
\* replaced by the extension of the layout's file name, whatever the
\* extension of the source file (unless the layout file is missing, which
\* ends the build).
C2_DocumentPathHasLayoutExtension ==
  \A i \in 1..Len(visits) :
    (visits[i].what = "document" /\ err # "ENOENT")
      => \E w \in 1..Len(written) :
           /\ written[w].by = "walk"
           /\ written[w].path
                = withExtension(S_site \o relPath(visits[i].names),
                                layoutExtension(docLayout(visits[i])))

\* C4: a layout file that has been read and compiled is in the layout cache
\* from then on, and no layout file is read and compiled twice in a build.
C4_LayoutCompiledOnceAndCached ==
  /\ \A i \in 1..Len(reads) : has(layouts, reads[i])
  /\ \A i, j \in 1..Len(reads) : reads[i] = reads[j] => i = j


\* after line 157 everything in _site was put there by this build
builtSomething == pc \in {"emit", "walk", "done"} /\ site # IdleSite

malformedPostRead ==
  \E j \in 1..(fi - 1) : disk.postFiles[j].matches /\ ~readable(disk.postFiles[j])

\* C6 as claimed: when the build stops at a malformed metadata block, this
\* build has created or written nothing in the output tree.
C6_ParseErrorLeavesNoOutput == err = "ParseError" => ~builtSomething

\* C6 as amended: a malformed metadata block always stops the build with the
\* parse error.  In a post, it does so before the build has removed, created
\* or written anything in the output tree.  In a document of the walk, it
\* does so after the previous output tree was removed, and what the build
\* has written before that document is still there.
C6_ParseErrorStopsTheBuild ==
  /\ ~malformedPostRead
  /\ \A i \in 1..Len(visits) :
       (visits[i].text.fm = "malformed" /\ visits[i].what \notin {"reserved", "excluded"})
         => visits[i].what = "unreadable" /\ i = Len(visits) /\ err = "ParseError"
  /\ err = "ParseError"
       => \/ /\ pc = "readPosts"
             /\ disk.postFiles[fi].text.fm = "malformed"
             /\ site = disk.oldSite /\ written = <<>>
          \/ /\ pc = "walk"
             /\ visits[Len(visits)].what = "unreadable"
             /\ site.files \cap disk.oldSite.files = {}
             /\ \A w \in 1..Len(written) : fileAt(written[w].path) # {}

\* the build stops at a malformed post with the previous output tree in place
C6_Witness ==
  /\ err = "ParseError" /\ pc = "readPosts" /\ posts # <<>>
  /\ site.files # {}

range(q) == {q[i] : i \in 1..Len(q)}

allTags == UNION {range(tagsOf(posts[i])) : i \in 1..Len(posts)}

gathered == pc \in {"reset", "emit", "walk", "done"}

\* C8: the keys of the tag index are the tags that occur in a post, and the
\* bucket of a tag holds the posts whose tags include it, each once, in the
\* order of the sorted collection.
C8_BucketsHoldEachTaggedPostOnce ==
  gathered
    => /\ keys(tags) = allTags
       /\ \A T \in keys(tags) :
            get(tags, T)
              = SelectSeq([i \in 1..Len(posts) |-> i],
                          LAMBDA i : T \in range(tagsOf(posts[i])))

excludedRel(rel) ==
  LET ex == get(config, K_exclude)
  IN  ex.t = "arr" /\ \E i \in 1..Len(ex.a) : startsWith(rel, toString(ex.a[i]))

Pieces == { token(<<"n">>), token(<<"u">>), token(<<"x">>), <<"/">>, <<".", "h">> }

Templates == {Concat(ps) : ps \in SeqsUpTo(Pieces, MaxPieces)}

FieldValues == { <<"a">>, <<"b", "/", "c">>, <<"$", "&">>, token(<<"u">>) }

FieldKeys == { <<"n">>, <<"u">> }

VarLists ==
  {vs \in SeqsUpTo([k : FieldKeys, v : FieldValues], 2) :
     \A i, j \in 1..Len(vs) : i # j => vs[i].k # vs[j].k}


MainIdle ==
  /\ disk = IdleDisk /\ config = <<>> /\ err = "none" /\ fi = 1 /\ pi = 1 /\ posts = <<>> /\ tags = <<>>
  /\ layouts = <<>> /\ reads = <<>> /\ site = IdleSite /\ written = <<>>
  /\ stack = <<>> /\ visits = <<>>

MainUnchanged ==
  UNCHANGED <<disk, config, err, fi, pi, posts, tags, layouts, reads, site, written,
              stack, visits>>

InitFill ==
  /\ MainIdle
  /\ pc = "call"
  /\ arg \in [f : {"fillTemplate"}, tpl : Templates, vars : VarLists]
  /\ ret = NoRet

CallFillTemplate ==
  /\ pc = "call" /\ arg.f = "fillTemplate"
  /\ ret' = [f |-> "fillTemplate", v |-> fillTemplate(arg.tpl, arg.vars)]
  /\ pc' = "return"
  /\ UNCHANGED arg
  /\ MainUnchanged

NextFill == CallFillTemplate

SpecFill == InitFill /\ [][NextFill]_vars

\* The text the claim describes: every ${k} token with k a property of vars
\* stands for k's value, every other character stands for itself.
RECURSIVE substituteTokens(_, _)
substituteTokens(tpl, vs) ==
  IF tpl = <<>> THEN <<>>
  ELSE LET hit == {i \in 1..Len(vs) : startsWith(tpl, token(vs[i].k))}
       IN  IF hit = {} THEN <<Head(tpl)>> \o substituteTokens(Tail(tpl), vs)
           ELSE LET i == CHOOSE i \in hit : TRUE
                IN  vs[i].v \o substituteTokens(slice(tpl, Len(token(vs[i].k))), vs)

\* C3: fillTemplate(tpl, vars) returns tpl with every occurrence of each
\* ${field} token whose field is in vars replaced by the field's value, and
\* the tokens of absent fields left in place.
C3_FillReplacesEveryToken ==
  (pc = "return" /\ ret.f = "fillTemplate")
    => ret.v = substituteTokens(arg.tpl, arg.vars)


(***************************************************************************)
(* partialTemplate applied on its own, to the contexts generate() builds   *)
(* and the documents it renders.                                           *)
(***************************************************************************)
GoodPostLists ==
  {sortByDate([i \in 1..Len(fs) |-> readPost(readConfig(Undefined), fs[i]).post]) :
     fs \in {d \in PostsDirs : \A i \in 1..Len(d) : readable(d[i])}}

SiteContexts ==
  {siteContext(ps, gatherTags(ps).tags, readConfig(c)) :
     ps \in {q \in GoodPostLists : ~gatherTags(q).threw}, c \in ConfigFiles}

Documents ==
  {readPost(readConfig(Undefined), PostsListing[i]).post :
     i \in {j \in 1..Len(PostsListing) : readable(PostsListing[j])}}
  \cup { <<>>,
         <<[k |-> K_site, v |-> Str(<<"s">>)]>>,
         <<[k |-> K_title, v |-> Str(<<"T">>)],
           [k |-> K_dateFormat, v |-> Str(<<"f">>)]>> }

InitMerge ==
  /\ MainIdle
  /\ pc = "call"
  /\ arg \in [f : {"partialTemplate"}, ctx : SiteContexts, newCtx : Documents]
  /\ ret = NoRet

CallPartialTemplate ==
  /\ pc = "call" /\ arg.f = "partialTemplate"
  /\ ret' = [f |-> "partialTemplate", v |-> partialTemplate(arg.ctx, arg.newCtx)]
  /\ pc' = "return"
  /\ UNCHANGED arg
  /\ MainUnchanged

NextMerge == CallPartialTemplate

SpecMerge == InitMerge /\ [][NextMerge]_vars

\* C5: the context handed to the compiled template is the site context
\* overlaid with the document: every key of the document has the document's
\* value, every other key of the site context (site, dateFormat) has the
\* site context's value, and there is no other key.
C5_ContextIsSiteContextOverlaidWithDocument ==
  (pc = "return" /\ ret.f = "partialTemplate")
    => /\ keys(ret.v) = keys(arg.ctx) \cup keys(arg.newCtx)
       /\ \A k \in keys(arg.newCtx) : get(ret.v, k) = get(arg.newCtx, k)
       /\ \A k \in keys(arg.ctx) \ keys(arg.newCtx) : get(ret.v, k) = get(arg.ctx, k)

(***************************************************************************)
(* readPost applied on its own, to every date a file name can carry.       *)
(***************************************************************************)
DigitStrings == [1..1 -> Digits] \cup [1..2 -> Digits]

Years ==
  { <<2, 0, 2, 4>>, <<2, 0, 2, 3>>, <<1, 9, 0, 0>>, <<2, 0, 0, 0>>, <<0, 1, 0, 0>>,
    <<0, 0, 9, 9>> }

DateTexts ==
  { Text("none", <<>>, <<"x">>),
    Text("map", <<[k |-> K_date, v |-> Str(<<"2", "0", "0", "1">>)]>>, <<"x">>) }

InitDate ==
  /\ MainIdle
  /\ pc = "call"
  /\ \E y \in Years, m \in DigitStrings, d \in DigitStrings, text \in DateTexts :
       arg = [f |-> "readPost", file |-> PostFile(y, m, d, <<"x">>, "md", text)]
  /\ ret = NoRet

CallReadPost ==
  /\ pc = "call" /\ arg.f = "readPost"
  /\ ret' = [f |-> "readPost", v |-> readPost(readConfig(Undefined), arg.file).post]
  /\ pc' = "return"
  /\ UNCHANGED arg
  /\ MainUnchanged

NextDate == CallReadPost

SpecDate == InitDate /\ [][NextDate]_vars

\* the calendar date of a Date as <<year, month, day of the month>>
calendarDate(v) == <<getFullYear(v.day), getMonth(v.day) + 1, getDate(v.day)>>

written3(file) == <<toNumber(file.d1), toNumber(file.d2), toNumber(file.d3)>>

\* is <<y, m, d>> a date of the calendar
isCalendarDate(ymd) ==
  /\ ymd[2] \in 1..12
  /\ ymd[3] \in 1..daysInMonth(ymd[1], ymd[2] - 1)

\* C7 as claimed: the date of the collected post is the calendar date written
\* in the file name, whatever the three numbers and the metadata are.
C7_DateIsTheDateWritten ==
  (pc = "return" /\ ret.f = "readPost")
    => /\ get(ret.v, K_date).t = "date"
       /\ calendarDate(get(ret.v, K_date)) = written3(arg.file)

\* C7 as amended: when the three numbers are a date of the calendar in a
\* year from 100 on, the date of the collected post is that date, whatever
\* `date` the metadata carries.
C7_DateIsTheDateWrittenWhenItIsADate ==
  (pc = "return" /\ ret.f = "readPost"
     /\ isCalendarDate(written3(arg.file)) /\ written3(arg.file)[1] >= 100)
    => /\ get(ret.v, K_date).t = "date"
       /\ calendarDate(get(ret.v, K_date)) = written3(arg.file)

\* a post of 29 February whose metadata carries a date of its own
C7_Witness ==
  /\ pc = "return" /\ ret.f = "readPost"
  /\ written3(arg.file) = <<2024, 2, 29>>
  /\ has(arg.file.text.meta, K_date)
  /\ calendarDate(get(ret.v, K_date)) = <<2024, 2, 29>>

==========================================================================
